---- MODULE Spec2Model ----
(***************************************************************************)
(* Model of HieroglyphicsConverter (src/hieroglyphics.py).                 *)
(*                                                                         *)
(* A Python str is modelled as a sequence of characters; a character is a  *)
(* TLA+ string ("k", "\t", "U+0130").  An output symbol of the tables is   *)
(* one element of such a sequence, named by the code point of the          *)
(* hieroglyph its bytes encode ("U+133A1"); equal symbols of the source    *)
(* have equal names and different symbols different names.                 *)
(***************************************************************************)
EXTENDS Integers, Sequences, FiniteSets, TLC

VARIABLES converter, op, arg, result, calls

vars == <<converter, op, arg, result, calls>>

(***************************************************************************)
(* Bounds of the model.                                                    *)
(***************************************************************************)
MaxLen == 3
MaxBatch == 2
MaxFrameLen == 1
MaxCalls == 2

(***************************************************************************)
(* __init__: the four tables.                                              *)
(***************************************************************************)
STROKE == "U+133E4"

hieroglyphic_map ==
    "a" :> <<"U+1313F">> @@ "b" :> <<"U+130C0">> @@ "c" :> <<"U+133A1">> @@
    "d" :> <<"U+130A7">> @@ "e" :> <<"U+131CB">> @@ "f" :> <<"U+13191">> @@
    "g" :> <<"U+133BC">> @@ "h" :> <<"U+13254">> @@ "i" :> <<"U+131CB">> @@
    "j" :> <<"U+131B3">> @@ "k" :> <<"U+133A1">> @@ "l" :> <<"U+130ED">> @@
    "m" :> <<"U+13153">> @@ "n" :> <<"U+13216">> @@ "o" :> <<"U+13171">> @@
    "p" :> <<"U+132AA">> @@ "q" :> <<"U+1313F">> @@ "r" :> <<"U+1308B">> @@
    "s" :> <<"U+132F4">> @@ "t" :> <<"U+133CF">> @@ "u" :> <<"U+13171">> @@
    "v" :> <<"U+13191">> @@ "w" :> <<"U+13171">> @@ "x" :> <<"U+133A1">> @@
    "y" :> <<"U+131CC">> @@ "z" :> <<"U+13283">>

special_chars ==
    " " :> <<" ">> @@ "." :> <<STROKE>> @@ "," :> <<STROKE>> @@
    "!" :> <<STROKE>> @@ "?" :> <<STROKE>> @@ ":" :> <<STROKE>> @@
    ";" :> <<STROKE>> @@ "-" :> <<STROKE>> @@ "'" :> <<>> @@ "\"" :> <<>>

numbers ==
    "0" :> <<"U+13362">> @@ "1" :> <<"U+133FA">> @@ "2" :> <<"U+133FB">> @@
    "3" :> <<"U+133FC">> @@ "4" :> <<"U+133FD">> @@ "5" :> <<"U+133FE">> @@
    "6" :> <<"U+133FF">> @@ "7" :> <<"U+13400">> @@ "8" :> <<"U+13401">> @@
    "9" :> <<"U+13402">>

symbol_descriptions ==
    <<"U+1313F">> :> "Vulture (Aleph)" @@ <<"U+130C0">> :> "Foot/Leg" @@
    <<"U+133A1">> :> "Basket" @@ <<"U+130A7">> :> "Hand" @@
    <<"U+131CB">> :> "Reed" @@ <<"U+13191">> :> "Horned Viper" @@
    <<"U+133BC">> :> "Jar Stand" @@ <<"U+13254">> :> "Shelter/House" @@
    <<"U+131B3">> :> "Quail Chick" @@ <<"U+130ED">> :> "Lion" @@
    <<"U+13153">> :> "Owl" @@ <<"U+13216">> :> "Water Ripple" @@
    <<"U+13171">> :> "Quail Chick" @@ <<"U+132AA">> :> "Stool" @@
    <<"U+1308B">> :> "Mouth" @@ <<"U+132F4">> :> "Folded Cloth" @@
    <<"U+133CF">> :> "Bread Loaf" @@ <<"U+131CC">> :> "Double Reed" @@
    <<"U+13283">> :> "Door Bolt" @@ <<STROKE>> :> "Stroke (separator)"

\* Mutant of the constructor: one of the two symbols described as
\* "Quail Chick" has lost its description.
HieroglyphicsConverter_undescribed ==
    [hieroglyphic_map |-> hieroglyphic_map,
     special_chars |-> special_chars,
     numbers |-> numbers,
     symbol_descriptions |->
        [s \in DOMAIN symbol_descriptions \ {<<"U+13171">>}
            |-> symbol_descriptions[s]]]

\* The instance __init__ builds.
HieroglyphicsConverter ==
    [hieroglyphic_map |-> hieroglyphic_map,
     special_chars |-> special_chars,
     numbers |-> numbers,
     symbol_descriptions |-> symbol_descriptions]

(***************************************************************************)
(* Python built-ins the methods call.                                      *)
(***************************************************************************)
\* Characters c with c.isspace() among those the model draws.
Whitespace == {" ", "\t", "\n", "\r"}

\* c.lower() of one character.  U+0130 is the one character whose lowercase
\* form has two characters: "i" followed by the combining dot U+0307.
lower_char(c) ==
    CASE c = "K" -> <<"k">>
      [] c = "U+0130" -> <<"i", "U+0307">>
      [] OTHER -> <<c>>

RECURSIVE lower(_)
lower(text) ==
    IF text = <<>> THEN <<>>
    ELSE lower_char(Head(text)) \o lower(Tail(text))

\* s.isspace(): s is not empty and every character of it is whitespace.
isspace(s) == s # <<>> /\ \A i \in 1..Len(s) : s[i] \in Whitespace

\* s.strip(): s without its leading and trailing whitespace.
RECURSIVE lstrip(_)
lstrip(s) ==
    IF s # <<>> /\ Head(s) \in Whitespace THEN lstrip(Tail(s)) ELSE s

RECURSIVE rstrip(_)
rstrip(s) ==
    IF s # <<>> /\ s[Len(s)] \in Whitespace
    THEN rstrip(SubSeq(s, 1, Len(s) - 1)) ELSE s

strip(s) == rstrip(lstrip(s))

\* isinstance(v, str)
isinstance_str(v) == v.kind = "str"

\* `s in table` for a str s and a dict keyed by single characters.
in_dict(s, table) == Len(s) = 1 /\ s[1] \in DOMAIN table

\* dict.get(key, default)
dict_get(table, key, default) ==
    IF key \in DOMAIN table THEN table[key] ELSE default

(***************************************************************************)
(* convert_to_hieroglyphics                                                *)
(***************************************************************************)
ValueError == [status |-> "ValueError", message |-> "Input must be a string"]

\* The if/elif chain of the loop body: what one character adds to
\* hieroglyphic_text.
convert_char(self, char) ==
    IF char \in DOMAIN self.hieroglyphic_map THEN self.hieroglyphic_map[char]
    ELSE IF char \in DOMAIN self.special_chars THEN self.special_chars[char]
    ELSE IF char \in DOMAIN self.numbers THEN self.numbers[char]
    ELSE IF isspace(<<char>>) THEN <<" ">>
    ELSE <<STROKE>>

\* for char in text: hieroglyphic_text += ...
RECURSIVE convert_loop(_, _, _)
convert_loop(self, text, hieroglyphic_text) ==
    IF text = <<>> THEN hieroglyphic_text
    ELSE convert_loop(self, Tail(text),
                      hieroglyphic_text \o convert_char(self, Head(text)))

\* Mutant: the text is trimmed before it is converted.
convert_to_hieroglyphics_trimmed(self, text) ==
    IF ~isinstance_str(text) THEN ValueError
    ELSE [status |-> "ok",
          text |-> convert_loop(self, lower(strip(text.val)), <<>>)]

convert_to_hieroglyphics(self, text) ==
    IF ~isinstance_str(text) THEN ValueError
    ELSE IF strip(text.val) = <<>> THEN [status |-> "ok", text |-> <<>>]
    ELSE [status |-> "ok", text |-> convert_loop(self, lower(text.val), <<>>)]

(***************************************************************************)
(* convert_with_explanation.  An explanation is the formatted string       *)
(* "'{char}' -> {hieroglyph} ({note})", kept as its three interpolated     *)
(* parts; the whitespace branch formats the literal "[space]" in the place *)
(* of both the character and the hieroglyph.                               *)
(***************************************************************************)
SPACE_MARK == <<"[", "s", "p", "a", "c", "e", "]">>

\* Mutant: the whitespace branch is missing.
explain_char_no_isspace(self, char) ==
    IF char \in DOMAIN self.hieroglyphic_map THEN
        [add |-> self.hieroglyphic_map[char],
         explanation |-> [char |-> <<char>>,
                          hieroglyph |-> self.hieroglyphic_map[char],
                          note |-> dict_get(self.symbol_descriptions,
                                            self.hieroglyphic_map[char],
                                            "Unknown symbol")]]
    ELSE IF char \in DOMAIN self.special_chars THEN
        [add |-> self.special_chars[char],
         explanation |-> [char |-> <<char>>,
                          hieroglyph |-> self.special_chars[char],
                          note |-> "punctuation"]]
    ELSE IF char \in DOMAIN self.numbers THEN
        [add |-> self.numbers[char],
         explanation |-> [char |-> <<char>>,
                          hieroglyph |-> self.numbers[char],
                          note |-> "Egyptian numeral"]]
    ELSE
        [add |-> <<STROKE>>,
         explanation |-> [char |-> <<char>>, hieroglyph |-> <<STROKE>>,
                          note |-> "unsupported -> stroke placeholder"]]

explain_char(self, char) ==
    IF char \in DOMAIN self.hieroglyphic_map THEN
        LET hieroglyph == self.hieroglyphic_map[char]
            description == dict_get(self.symbol_descriptions, hieroglyph,
                                    "Unknown symbol")
        IN  [add |-> hieroglyph,
             explanation |-> [char |-> <<char>>, hieroglyph |-> hieroglyph,
                              note |-> description]]
    ELSE IF char \in DOMAIN self.special_chars THEN
        LET hieroglyph == self.special_chars[char]
        IN  [add |-> hieroglyph,
             explanation |-> [char |-> <<char>>, hieroglyph |-> hieroglyph,
                              note |-> "punctuation"]]
    ELSE IF char \in DOMAIN self.numbers THEN
        LET hieroglyph == self.numbers[char]
        IN  [add |-> hieroglyph,
             explanation |-> [char |-> <<char>>, hieroglyph |-> hieroglyph,
                              note |-> "Egyptian numeral"]]
    ELSE IF isspace(<<char>>) THEN
        [add |-> <<" ">>,
         explanation |-> [char |-> SPACE_MARK, hieroglyph |-> SPACE_MARK,
                          note |-> "word separator"]]
    ELSE
        [add |-> <<STROKE>>,
         explanation |-> [char |-> <<char>>, hieroglyph |-> <<STROKE>>,
                          note |-> "unsupported -> stroke placeholder"]]

\* Mutant: a character that adds nothing to the output gets no explanation.
RECURSIVE explain_loop_skipping(_, _, _, _)
explain_loop_skipping(self, text, hieroglyphic_text, explanations) ==
    IF text = <<>>
    THEN [status |-> "ok", text |-> hieroglyphic_text,
          explanations |-> explanations]
    ELSE LET step == explain_char(self, Head(text))
         IN  explain_loop_skipping(
                 self, Tail(text), hieroglyphic_text \o step.add,
                 IF step.add = <<>> THEN explanations
                 ELSE Append(explanations, step.explanation))

RECURSIVE explain_loop(_, _, _, _)
explain_loop(self, text, hieroglyphic_text, explanations) ==
    IF text = <<>>
    THEN [status |-> "ok", text |-> hieroglyphic_text,
          explanations |-> explanations]
    ELSE LET step == explain_char(self, Head(text))
         IN  explain_loop(self, Tail(text), hieroglyphic_text \o step.add,
                          Append(explanations, step.explanation))

\* Mutant: the isinstance check is missing, so text.strip() raises.
convert_with_explanation_unchecked(self, text) ==
    IF ~isinstance_str(text)
    THEN [status |-> "AttributeError", message |-> "strip"]
    ELSE IF strip(text.val) = <<>>
    THEN [status |-> "ok", text |-> <<>>, explanations |-> <<>>]
    ELSE explain_loop(self, lower(text.val), <<>>, <<>>)

convert_with_explanation(self, text) ==
    IF ~isinstance_str(text) THEN ValueError
    ELSE IF strip(text.val) = <<>>
    THEN [status |-> "ok", text |-> <<>>, explanations |-> <<>>]
    ELSE explain_loop(self, lower(text.val), <<>>, <<>>)

(***************************************************************************)
(* get_character_info.  The returned sentence is kept as the parts it is   *)
(* formatted from and the fixed wording that names the branch.             *)
(***************************************************************************)
get_character_info(self, text) ==
    IF Len(text.val) # 1 THEN
        [status |-> "ok", char |-> <<>>, hieroglyph |-> <<>>,
         description |-> "", wording |-> "Please provide a single character"]
    ELSE
    LET char == lower(text.val) IN
    IF in_dict(char, self.hieroglyphic_map) THEN
        LET hieroglyph == self.hieroglyphic_map[char[1]]
        IN  [status |-> "ok", char |-> char, hieroglyph |-> hieroglyph,
             description |-> dict_get(self.symbol_descriptions, hieroglyph,
                                      "Unknown symbol"),
             wording |-> "Egyptian hieroglyphic letter"]
    ELSE IF in_dict(char, self.special_chars) THEN
        [status |-> "ok", char |-> char,
         hieroglyph |-> self.special_chars[char[1]],
         description |-> "", wording |-> "special character/punctuation"]
    ELSE IF in_dict(char, self.numbers) THEN
        [status |-> "ok", char |-> char, hieroglyph |-> self.numbers[char[1]],
         description |-> "", wording |-> "Egyptian numeral"]
    ELSE IF isspace(char) THEN
        [status |-> "ok", char |-> char, hieroglyph |-> SPACE_MARK,
         description |-> "", wording |-> "word separator"]
    ELSE
        [status |-> "ok", char |-> char, hieroglyph |-> <<STROKE>>,
         description |-> "",
         wording |-> "is not supported and will be replaced with"]

(***************************************************************************)
(* batch_convert: a list comprehension; the first element whose conversion *)
(* raises ends the call with that error.                                   *)
(***************************************************************************)
\* Mutant: an element whose conversion raises is left out.
RECURSIVE batch_loop_tolerant(_, _, _)
batch_loop_tolerant(self, text_list, done) ==
    IF text_list = <<>> THEN [status |-> "ok", list |-> done]
    ELSE LET r == convert_to_hieroglyphics(self, Head(text_list))
         IN  batch_loop_tolerant(self, Tail(text_list),
                                 IF r.status # "ok" THEN done
                                 ELSE Append(done, r.text))

RECURSIVE batch_loop(_, _, _)
batch_loop(self, text_list, done) ==
    IF text_list = <<>> THEN [status |-> "ok", list |-> done]
    ELSE LET r == convert_to_hieroglyphics(self, Head(text_list))
         IN  IF r.status # "ok" THEN r
             ELSE batch_loop(self, Tail(text_list), Append(done, r.text))

batch_convert(self, text_list) == batch_loop(self, text_list.items, <<>>)

(***************************************************************************)
(* get_alphabet_reference: "{hieroglyph} ({description})" per letter.      *)
(***************************************************************************)
get_alphabet_reference(self) ==
    [status |-> "ok",
     reference |->
        [letter \in DOMAIN self.hieroglyphic_map |->
            [hieroglyph |-> self.hieroglyphic_map[letter],
             description |-> dict_get(self.symbol_descriptions,
                                      self.hieroglyphic_map[letter],
                                      "Unknown")]]]

(***************************************************************************)
(* validate_text                                                           *)
(***************************************************************************)
all_supported_chars(self) ==
    DOMAIN self.hieroglyphic_map \cup DOMAIN self.special_chars
        \cup DOMAIN self.numbers \cup {" ", "\t", "\n"}

\* Mutant: the `char not in unsupported` test is missing.
validate_char_repeating(self, char, unsupported) ==
    IF char \notin all_supported_chars(self)
    THEN Append(unsupported, char)
    ELSE unsupported

\* if char not in all_supported_chars and char not in unsupported: append
validate_char(self, char, unsupported) ==
    IF char \notin all_supported_chars(self)
       /\ ~(\E i \in 1..Len(unsupported) : unsupported[i] = char)
    THEN Append(unsupported, char)
    ELSE unsupported

RECURSIVE validate_loop(_, _, _)
validate_loop(self, text, unsupported) ==
    IF text = <<>> THEN unsupported
    ELSE validate_loop(self, Tail(text),
                       validate_char(self, Head(text), unsupported))

validate_text(self, text) ==
    LET unsupported == validate_loop(self, lower(text.val), <<>>)
    IN  [status |-> "ok", ok |-> Len(unsupported) = 0,
         unsupported |-> unsupported]

(***************************************************************************)
(* The values a caller passes.                                             *)
(***************************************************************************)
Alphabet == {"k", "K", "U+0130", ".", "'", " ", "\t", "\r", "1", "@"}

SeqsUpTo(S, n) == UNION {[1..m -> S] : m \in 0..n}

Str(t) == [kind |-> "str", val |-> t, items |-> <<>>]
IntValue == [kind |-> "int", val |-> <<>>, items |-> <<>>]
NoneValue == [kind |-> "NoneType", val |-> <<>>, items |-> <<>>]
List(l) == [kind |-> "list", val |-> <<>>, items |-> l]

Elements == {Str(<<>>), Str(<<"\t", " ">>), Str(<<"K", "@">>), IntValue}

Values ==
    {Str(t) : t \in SeqsUpTo(Alphabet, MaxLen)}
        \cup {IntValue, NoneValue}
        \cup {List(l) : l \in SeqsUpTo(Elements, MaxBatch)}

FrameAlphabet == {"c", "K", "\t", "@"}

FrameValues ==
    {Str(t) : t \in SeqsUpTo(FrameAlphabet, MaxFrameLen)}
        \cup {IntValue, NoneValue}
        \cup {List(l) : l \in SeqsUpTo(Elements, MaxBatch)}

(***************************************************************************)
(* The state machine: one instance, and the last call made on it.          *)
(***************************************************************************)
Init ==
    /\ converter = HieroglyphicsConverter
    /\ op = "__init__"
    /\ arg \in Values
    /\ result = [status |-> "none"]
    /\ calls = 0

\* The caller makes at most MaxCalls calls on the instance.
Counted == calls < MaxCalls /\ calls' = calls + 1

ConvertToHieroglyphics(v) ==
    /\ op' = "convert_to_hieroglyphics"
    /\ arg' = v
    /\ result' = convert_to_hieroglyphics(converter, v)
    /\ UNCHANGED converter
    /\ Counted

ConvertWithExplanation(v) ==
    /\ op' = "convert_with_explanation"
    /\ arg' = v
    /\ result' = convert_with_explanation(converter, v)
    /\ UNCHANGED converter
    /\ Counted

GetCharacterInfo(v) ==
    /\ v.kind = "str"
    /\ op' = "get_character_info"
    /\ arg' = v
    /\ result' = get_character_info(converter, v)
    /\ UNCHANGED converter
    /\ Counted

BatchConvert(v) ==
    /\ v.kind = "list"
    /\ op' = "batch_convert"
    /\ arg' = v
    /\ result' = batch_convert(converter, v)
    /\ UNCHANGED converter
    /\ Counted

GetAlphabetReference ==
    /\ op' = "get_alphabet_reference"
    /\ arg' = arg
    /\ result' = get_alphabet_reference(converter)
    /\ UNCHANGED converter
    /\ Counted

\* Mutant: validation remembers what it found unsupported by entering it
\* in special_chars.
ValidateText_remembering(v) ==
    /\ v.kind = "str"
    /\ op' = "validate_text"
    /\ arg' = v
    /\ result' = validate_text(converter, v)
    /\ converter' =
          [converter EXCEPT !.special_chars =
              [c \in {result'.unsupported[i] :
                         i \in 1..Len(result'.unsupported)} |-> <<>>] @@ @]
    /\ Counted

ValidateText(v) ==
    /\ v.kind = "str"
    /\ op' = "validate_text"
    /\ arg' = v
    /\ result' = validate_text(converter, v)
    /\ UNCHANGED converter
    /\ Counted

Call(v) ==
    \/ ConvertToHieroglyphics(v)
    \/ ConvertWithExplanation(v)
    \/ GetCharacterInfo(v)
    \/ BatchConvert(v)
    \/ GetAlphabetReference
    \/ ValidateText(v)

\* Every operation applied, in any order and any number of times, to the
\* input drawn at the start.
Next ==
    \/ ConvertToHieroglyphics(arg)
    \/ ConvertWithExplanation(arg)
    \/ GetCharacterInfo(arg)
    \/ BatchConvert(arg)
    \/ GetAlphabetReference
    \/ ValidateText(arg)

Spec == Init /\ [][Next]_vars

\* Calls with changing inputs on the one instance.
InitFrame ==
    /\ converter = HieroglyphicsConverter
    /\ op = "__init__"
    /\ arg = NoneValue
    /\ result = [status |-> "none"]
    /\ calls = 0

NextFrame == \E v \in FrameValues : Call(v)

SpecFrame == InitFrame /\ [][NextFrame]_vars

(***************************************************************************)
(* The specification's vocabulary, used to state the properties: the       *)
(* Resolution Algorithm over letterTable, punctuationTable and digitTable  *)
(* as constructed, and the blank test.                                     *)
(***************************************************************************)
Letters ==
    {"a", "b", "c", "d", "e", "f", "g", "h", "i", "j", "k", "l", "m",
     "n", "o", "p", "q", "r", "s", "t", "u", "v", "w", "x", "y", "z"}

\* The step of the Resolution Algorithm that fires for character c.
StepOf(c) ==
    CASE c \in DOMAIN hieroglyphic_map -> "letter"
      [] c \notin DOMAIN hieroglyphic_map /\ c \in DOMAIN special_chars
            -> "punctuation"
      [] c \notin DOMAIN hieroglyphic_map /\ c \notin DOMAIN special_chars
            /\ c \in DOMAIN numbers -> "numeral"
      [] OTHER -> IF c \in Whitespace THEN "whitespace" ELSE "unsupported"

\* The token that step emits.
TokenOf(c) ==
    CASE StepOf(c) = "letter" -> hieroglyphic_map[c]
      [] StepOf(c) = "punctuation" -> special_chars[c]
      [] StepOf(c) = "numeral" -> numbers[c]
      [] StepOf(c) = "whitespace" -> <<" ">>
      [] OTHER -> <<STROKE>>

\* The concatenation of a sequence of tokens, in order.
RECURSIVE Concat(_)
Concat(tokens) ==
    IF tokens = <<>> THEN <<>>
    ELSE Concat(SubSeq(tokens, 1, Len(tokens) - 1)) \o tokens[Len(tokens)]

IsBlank(t) == \A i \in 1..Len(t) : t[i] \in Whitespace

\* convert(t) as the specification defines it.
SpecConvert(t) ==
    IF IsBlank(t) THEN <<>>
    ELSE LET l == lower(t)
         IN  Concat([i \in 1..Len(l) |-> TokenOf(l[i])])

IsCallOn(name, kind) == op = name /\ arg.kind = kind

(***************************************************************************)
(* C1: convert(t) is the empty string for an empty or whitespace-only t,   *)
(* and otherwise the in-order concatenation, over every character of       *)
(* lowercase(t) with nothing trimmed, of the token the fixed precedence    *)
(* letter, punctuation, digit, whitespace, placeholder chooses.            *)
(***************************************************************************)
C1_ConvertResolves ==
    IsCallOn("convert_to_hieroglyphics", "str") =>
        result = [status |-> "ok", text |-> SpecConvert(arg.val)]

\* A tab leads, an upper-case letter and an unsupported character follow.
C1_Witness ==
    /\ IsCallOn("convert_to_hieroglyphics", "str")
    /\ arg.val = <<"\t", "K", "@">>
    /\ result.text = <<" ", "U+133A1", STROKE>>

(***************************************************************************)
(* C2 as claimed: for every text t the trace of convertWithTrace(t) has    *)
(* exactly len(lowercase(t)) entries.                                      *)
(***************************************************************************)
C2_TraceLengthAlways ==
    IsCallOn("convert_with_explanation", "str") =>
        /\ result.status = "ok"
        /\ Len(result.explanations) = Len(lower(arg.val))

(***************************************************************************)
(* C2 as amended: for every text t that is not empty or whitespace-only    *)
(* the trace has exactly len(lowercase(t)) entries, the i-th of them for   *)
(* the i-th character of lowercase(t); for an empty or whitespace-only t   *)
(* the trace is empty.                                                     *)
(***************************************************************************)
C2_TraceLengthUnlessBlank ==
    IsCallOn("convert_with_explanation", "str") =>
        LET l == lower(arg.val)
            e == result.explanations
        IN  /\ result.status = "ok"
            /\ IsBlank(arg.val) => e = <<>>
            /\ ~IsBlank(arg.val) =>
                /\ Len(e) = Len(l)
                /\ \A i \in 1..Len(e) :
                      e[i].char = IF StepOf(l[i]) = "whitespace"
                                  THEN SPACE_MARK ELSE <<l[i]>>

\* Two input characters, three characters once lowercased, three entries;
\* the second input character is deleted punctuation.
C2_Witness ==
    /\ IsCallOn("convert_with_explanation", "str")
    /\ arg.val = <<"U+0130", "'">>
    /\ Len(result.explanations) = 3

\* The category an explanation names: its note is the symbol's description
\* for a letter and a fixed wording for every other branch.
CategoryOfNote(note) ==
    CASE note = "punctuation" -> "punctuation"
      [] note = "Egyptian numeral" -> "numeral"
      [] note = "word separator" -> "whitespace"
      [] note = "unsupported -> stroke placeholder" -> "unsupported"
      [] OTHER -> "letter"

\* The trace of a call agrees with convert, its tokens read through Read.
TraceAgrees(Read(_)) ==
    LET l == lower(arg.val)
        e == result.explanations
        converted == convert_to_hieroglyphics(converter, arg)
    IN  /\ result.status = "ok"
        /\ result.text = converted.text
        /\ Concat([i \in 1..Len(e) |-> Read(e[i].hieroglyph)]) = converted.text
        /\ \A i \in 1..Len(e) : CategoryOfNote(e[i].note) = StepOf(l[i])

AsWritten(hieroglyph) == hieroglyph

MarkAsSpace(hieroglyph) ==
    IF hieroglyph = SPACE_MARK THEN <<" ">> ELSE hieroglyph

(***************************************************************************)
(* C3 as claimed: the string convertWithTrace(t) returns equals            *)
(* convert(t), the emitted tokens of its trace entries concatenated in     *)
(* order also give convert(t), and each entry's category is the            *)
(* resolution step that produced its token.                                *)
(***************************************************************************)
C3_TraceTokensAreOutput ==
    IsCallOn("convert_with_explanation", "str") => TraceAgrees(AsWritten)

(***************************************************************************)
(* C3 as amended: the same, with the "[space]" that the entry of a         *)
(* whitespace-step character shows in the place of its token read as the   *)
(* single space that step emits.                                           *)
(***************************************************************************)
C3_TraceTokensWithMark ==
    IsCallOn("convert_with_explanation", "str") => TraceAgrees(MarkAsSpace)

\* A letter, a tab (whitespace step) and a space (punctuation step).
C3_Witness ==
    /\ IsCallOn("convert_with_explanation", "str")
    /\ arg.val = <<"K", "\t", " ">>
    /\ result.text = <<"U+133A1", " ", " ">>
    /\ result.explanations[2].hieroglyph = SPACE_MARK
    /\ result.explanations[3].hieroglyph = <<" ">>

(***************************************************************************)
(* C4: validate(t) lists as unsupported exactly the distinct characters    *)
(* of lowercase(t) for which convert's resolution falls through to the     *)
(* placeholder step, and returns true exactly when convert(t) emits no     *)
(* fallback placeholder.                                                   *)
(***************************************************************************)
C4_ValidateMatchesConvert ==
    IsCallOn("validate_text", "str") =>
        LET l == lower(arg.val)
            fallen == {l[i] : i \in {j \in 1..Len(l) :
                                        StepOf(l[j]) = "unsupported"}}
            u == result.unsupported
        IN  /\ {u[i] : i \in 1..Len(u)} = fallen
            /\ result.ok = (IsBlank(arg.val) \/ fallen = {})

\* The index of the first occurrence of c in l.
FirstIndex(l, c) ==
    CHOOSE i \in 1..Len(l) : l[i] = c /\ \A j \in 1..(i - 1) : l[j] # c

(***************************************************************************)
(* C5: the list validate(t) returns has no duplicates, holds each          *)
(* character of lowercase(t) that validate does not support exactly once,  *)
(* in order of first occurrence, and the boolean is true if and only if    *)
(* the list is empty.                                                      *)
(***************************************************************************)
C5_UnsupportedOnceInOrder ==
    IsCallOn("validate_text", "str") =>
        LET l == lower(arg.val)
            u == result.unsupported
            supported == DOMAIN hieroglyphic_map \cup DOMAIN special_chars
                            \cup DOMAIN numbers \cup {" ", "\t", "\n"}
        IN  /\ \A i, j \in 1..Len(u) : i # j => u[i] # u[j]
            /\ {u[i] : i \in 1..Len(u)}
                  = {l[i] : i \in 1..Len(l)} \ supported
            /\ \A i, j \in 1..Len(u) :
                  i < j => FirstIndex(l, u[i]) < FirstIndex(l, u[j])
            /\ result.ok = (u = <<>>)

\* "@" occurs twice, around another unsupported character.
C5_Witness ==
    /\ IsCallOn("validate_text", "str")
    /\ arg.val = <<"@", "\r", "@">>
    /\ result.unsupported = <<"@", "\r">>
    /\ result.ok = FALSE

(***************************************************************************)
(* C6: convert and convertWithTrace fail with ValueError whenever the      *)
(* argument is not text, and never fail for a text argument.               *)
(***************************************************************************)
C6_ValueErrorIffNotText ==
    op \in {"convert_to_hieroglyphics", "convert_with_explanation"} =>
        /\ arg.kind # "str" => result = ValueError
        /\ arg.kind = "str" => result.status = "ok"

C6_Witness ==
    /\ op = "convert_with_explanation"
    /\ arg = NoneValue
    /\ result = ValueError

(***************************************************************************)
(* C7: for a sequence L of text values batchConvert(L) has the length of   *)
(* L and its i-th element is convert(L[i]); if an element of L is not      *)
(* text the call fails with ValueError and returns no partial result.      *)
(***************************************************************************)
C7_BatchIsElementwise ==
    IsCallOn("batch_convert", "list") =>
        LET L == arg.items
        IN  IF \A i \in 1..Len(L) : L[i].kind = "str"
            THEN /\ result.status = "ok"
                 /\ Len(result.list) = Len(L)
                 /\ \A i \in 1..Len(L) :
                       result.list[i] = SpecConvert(L[i].val)
            ELSE result = ValueError

\* Two different elements, the second of them blank.
C7_Witness ==
    /\ IsCallOn("batch_convert", "list")
    /\ arg.items = <<Str(<<"K", "@">>), Str(<<"\t", " ">>)>>
    /\ result.list = << <<"U+133A1", STROKE>>, <<>> >>

\* The category a get_character_info sentence names by its fixed wording.
CategoryOfWording(wording) ==
    CASE wording = "Egyptian hieroglyphic letter" -> "letter"
      [] wording = "special character/punctuation" -> "punctuation"
      [] wording = "Egyptian numeral" -> "numeral"
      [] wording = "word separator" -> "whitespace"
      [] wording = "is not supported and will be replaced with"
            -> "unsupported"
      [] OTHER -> "none"

(***************************************************************************)
(* C8: describeCharacter(s) never fails; it returns the fixed message      *)
(* when len(s) is not 1, and otherwise reports the category and the symbol *)
(* that convert's Resolution Algorithm assigns to lowercase(s).  (The      *)
(* "[space]" of the word-separator wording is read as the space it stands  *)
(* for.)                                                                   *)
(***************************************************************************)
C8_DescribeMatchesConvert ==
    IsCallOn("get_character_info", "str") =>
        /\ result.status = "ok"
        /\ Len(arg.val) # 1 =>
              result.wording = "Please provide a single character"
        /\ Len(arg.val) = 1 =>
              LET l == lower(arg.val)
              IN  /\ \A i \in 1..Len(l) :
                        CategoryOfWording(result.wording) = StepOf(l[i])
                  /\ MarkAsSpace(result.hieroglyph)
                        = Concat([i \in 1..Len(l) |-> TokenOf(l[i])])
                  /\ StepOf(l[1]) = "letter" =>
                        result.description
                            = symbol_descriptions[TokenOf(l[1])]

\* The table invariant, for every punctuation value outside exempt.
Described(self, exempt) ==
    /\ \A c \in DOMAIN self.hieroglyphic_map :
          self.hieroglyphic_map[c] \in DOMAIN self.symbol_descriptions
    /\ \A c \in DOMAIN self.special_chars :
          self.special_chars[c] \notin ({<<>>} \cup exempt) =>
              self.special_chars[c] \in DOMAIN self.symbol_descriptions
    /\ <<STROKE>> \in DOMAIN self.symbol_descriptions

\* The reference has the 26 letters, each with its symbol and description.
ReferenceComplete ==
    op = "get_alphabet_reference" =>
        /\ DOMAIN result.reference = Letters
        /\ Cardinality(DOMAIN result.reference) = 26
        /\ \A c \in Letters :
              /\ result.reference[c].hieroglyph = hieroglyphic_map[c]
              /\ result.reference[c].description
                    = symbol_descriptions[hieroglyphic_map[c]]
              /\ result.reference[c].description # "Unknown"

(***************************************************************************)
(* C9 as claimed: every symbol that is a value of letterTable and every    *)
(* non-empty value of punctuationTable has an entry in DescriptionTable,   *)
(* and so has the placeholder; getAlphabetReference returns exactly one    *)
(* entry per letter a-z, each with a real description.                     *)
(***************************************************************************)
C9_EveryValueDescribed ==
    Described(converter, {}) /\ ReferenceComplete

(***************************************************************************)
(* C9 as amended: every symbol that is a value of letterTable, and every   *)
(* value of punctuationTable other than the empty string and the plain     *)
(* space that the space key maps to, has an entry in DescriptionTable, and *)
(* so has the placeholder; getAlphabetReference returns exactly one entry  *)
(* per letter a-z, each with a real description.                           *)
(***************************************************************************)
C9_EveryGlyphDescribed ==
    Described(converter, {<<" ">>}) /\ ReferenceComplete

C9_Witness ==
    /\ op = "get_alphabet_reference"
    /\ Cardinality(DOMAIN result.reference) = 26
    /\ result.reference["k"]
          = [hieroglyph |-> <<"U+133A1">>, description |-> "Basket"]

(***************************************************************************)
(* C10: after any sequence of calls of the six operations, failing calls   *)
(* included, the four tables are as constructed, and convert returns for   *)
(* an input what it returns for it on a fresh instance.                    *)
(***************************************************************************)
C10_TablesAsConstructed ==
    /\ converter = HieroglyphicsConverter
    /\ IsCallOn("convert_to_hieroglyphics", "str") =>
          result = convert_to_hieroglyphics(HieroglyphicsConverter, arg)

\* convert as the last of MaxCalls calls.
C10_Witness ==
    /\ calls = MaxCalls
    /\ IsCallOn("convert_to_hieroglyphics", "str")
    /\ arg.val = <<"@">>
    /\ result.text = <<STROKE>>

====
